---- MODULE Spec2Model ----
(***************************************************************************)
(* Fitness-tracker module homework.py: read_package builds a training      *)
(* record from a tag and a list of sensor values; the record computes      *)
(* distance, mean speed and spent calories; InfoMessage renders them.      *)
(*                                                                         *)
(* Numbers.  A Python number is modelled as a record [t, n, d]:            *)
(*   t = "int"    an int, value n (d = 1), of unbounded size;              *)
(*   t = "float"  a finite float, the exact rational n/d in lowest terms;  *)
(*   t = "inf"    a float infinity of sign n;   t = "nan"  a float NaN.    *)
(* A raised exception is the record whose t is the exception's name.       *)
(* The float format keeps its two range limits, scaled down: MaxFloat      *)
(* stands for sys.float_info.max (about 1.8e308) and 1/TinyInv for the     *)
(* smallest positive float (5e-324).  A result above MaxFloat in magnitude *)
(* overflows, a non-zero result below 1/TinyInv in magnitude underflows to *)
(* zero; a value at or beyond these limits stands for a Python value at or *)
(* beyond the real ones.  Rounding of the mantissa and the sign of zero    *)
(* are not modelled: inside the range float arithmetic is exact.           *)
(***************************************************************************)
EXTENDS Integers, Sequences, FiniteSets, TLC

\* Largest finite float of the modelled format (sys.float_info.max).
MaxFloat == 1000000
\* 1/TinyInv is the smallest positive float of the modelled format.
TinyInv == 1000000

Abs(x) == IF x < 0 THEN -x ELSE x
Sign(x) == IF x < 0 THEN -1 ELSE IF x > 0 THEN 1 ELSE 0

RECURSIVE GCD(_, _)
GCD(a, b) == IF b = 0 THEN a ELSE GCD(b, a % b)

PyInt(i) == [t |-> "int", n |-> i, d |-> 1]
Inf(s) == [t |-> "inf", n |-> s, d |-> 0]
NaN == [t |-> "nan", n |-> 0, d |-> 0]
Raise(e) == [t |-> e, n |-> 0, d |-> 0]
Exceptions ==
    {"ZeroDivisionError", "OverflowError", "ValueError", "TypeError",
     "NotImplementedError"}
IsExc(v) == v.t \in Exceptions
IsFinite(v) == v.t \in {"int", "float"}
IsZero(v) == IsFinite(v) /\ v.n = 0

\* The rational n/d (d # 0) in lowest terms with a positive denominator.
Rat(n, d) ==
    LET g == GCD(Abs(n), Abs(d))
        s == IF d < 0 THEN -1 ELSE 1
    IN  [t |-> "float", n |-> s * (n \div g), d |-> s * (d \div g)]

\* A float literal of the source, e.g. 0.65 = Rat(65, 100).
PyFloat(n, d) == Rat(n, d)

\* The float nearest to the exact rational q: infinity above the range,
\* zero below the smallest positive float.
RoundToFloat(q) ==
    LET a == Abs(q.n)
    IN  IF a \div q.d > MaxFloat \/ (a \div q.d = MaxFloat /\ a % q.d > 0)
        THEN Inf(Sign(q.n))
        ELSE IF a > 0 /\ (q.d \div a > TinyInv \/ (q.d \div a = TinyInv /\ q.d % a > 0))
        THEN Rat(0, 1)
        ELSE q

\* The largest integer TLC computes with.
IntMax == 2147483646 + 1

\* Exact product of two rationals, cancelling before multiplying.
RatMul(a, b) ==
    LET g1 == GCD(Abs(a.n), b.d)
        g2 == GCD(Abs(b.n), a.d)
    IN  Rat((a.n \div g1) * (b.n \div g2), (a.d \div g2) * (b.d \div g1))

\* RoundToFloat(RatMul(a, b)), decided without forming a numerator or a
\* denominator above IntMax when the product is outside the float range.
RoundedMul(a, b) ==
    LET g1 == GCD(Abs(a.n), b.d)
        g2 == GCD(Abs(b.n), a.d)
        na == Abs(a.n) \div g1
        nb == Abs(b.n) \div g2
        da == a.d \div g2
        db == b.d \div g1
        numBig == nb > 0 /\ na > IntMax \div nb
        denBig == da > IntMax \div db
    IN  IF numBig /\ ~denBig /\ da * db <= IntMax \div MaxFloat
        THEN Inf(Sign(a.n) * Sign(b.n))
        ELSE IF denBig /\ ~numBig /\ na * nb <= IntMax \div TinyInv
        THEN Rat(0, 1)
        ELSE RoundToFloat(RatMul(a, b))

\* Exact sum of two rationals.
RatAdd(a, b) ==
    LET g == GCD(a.d, b.d)
    IN  Rat(a.n * (b.d \div g) + b.n * (a.d \div g), (a.d \div g) * b.d)

RatInv(b) == Rat(b.d, b.n)

\* float(v): an int too large for the float format raises OverflowError.
ToFloat(v) ==
    IF v.t # "int" THEN v
    ELSE IF Abs(v.n) > MaxFloat THEN Raise("OverflowError")
    ELSE Rat(v.n, 1)

\* float * float.
FloatMul(a, b) ==
    IF a.t = "nan" \/ b.t = "nan" THEN NaN
    ELSE IF a.t = "inf" \/ b.t = "inf"
    THEN IF a.n = 0 \/ b.n = 0 THEN NaN ELSE Inf(Sign(a.n) * Sign(b.n))
    ELSE RoundedMul(a, b)

\* float + float.
FloatAdd(a, b) ==
    IF a.t = "nan" \/ b.t = "nan" THEN NaN
    ELSE IF a.t = "inf" /\ b.t = "inf"
    THEN IF a.n = b.n THEN a ELSE NaN
    ELSE IF a.t = "inf" THEN a
    ELSE IF b.t = "inf" THEN b
    ELSE RoundToFloat(RatAdd(a, b))

\* float / float: a zero divisor raises ZeroDivisionError.
FloatDiv(a, b) ==
    IF IsZero(b) THEN Raise("ZeroDivisionError")
    ELSE IF a.t = "nan" \/ b.t = "nan" THEN NaN
    ELSE IF a.t = "inf"
    THEN IF b.t = "inf" THEN NaN ELSE Inf(Sign(a.n) * Sign(b.n))
    ELSE IF b.t = "inf" THEN Rat(0, 1)
    ELSE RoundedMul(a, RatInv(b))

\* int / int (true division): the correctly rounded quotient; a quotient
\* above the float range raises OverflowError.
IntDiv(a, b) ==
    IF b.n = 0 THEN Raise("ZeroDivisionError")
    ELSE LET q == RoundToFloat(Rat(a.n, b.n))
         IN  IF q.t = "inf" THEN Raise("OverflowError") ELSE q

\* A Python expression is evaluated strictly: Bind(e, F) evaluates e once
\* and hands its value to F.
Bind(e, F(_)) == CHOOSE r \in {F(x) : x \in {e}} : TRUE

\* Statement sequencing: if e raised, the exception propagates; otherwise
\* the rest of the body, F, runs with the value of e.
Try(e, F(_)) == Bind(e, LAMBDA x : IF IsExc(x) THEN x ELSE F(x))

\* A binary operator: both operands are evaluated once, left to right; the
\* left operand's exception propagates first, then the right one's; then
\* op is applied to the two values.
BinOp(a, b, op(_, _)) ==
    CHOOSE r \in {IF IsExc(x) THEN x ELSE IF IsExc(y) THEN y ELSE op(x, y) :
                      x \in {a}, y \in {b}} : TRUE

\* Mixed int/float operands are converted to float before op is applied.
Coerced(x, y, op(_, _)) ==
    BinOp(ToFloat(x), ToFloat(y), op)

\* x * y on two values.
PyMul(x, y) ==
    IF x.t = "int" /\ y.t = "int" THEN PyInt(x.n * y.n)
    ELSE Coerced(x, y, FloatMul)

\* x + y on two values.
PyAdd(x, y) ==
    IF x.t = "int" /\ y.t = "int" THEN PyInt(x.n + y.n)
    ELSE Coerced(x, y, FloatAdd)

\* x / y on two values.
PyDiv(x, y) ==
    IF x.t = "int" /\ y.t = "int" THEN IntDiv(x, y)
    ELSE Coerced(x, y, FloatDiv)

\* x ** 2 on a value: exact on an int; on a float a result above the range
\* raises OverflowError, one below it is zero.
PyPow2(x) ==
    IF x.t = "int" THEN PyInt(x.n * x.n)
    ELSE IF x.t = "nan" THEN NaN
    ELSE IF x.t = "inf" THEN Inf(1)
    ELSE LET q == RoundedMul(x, x)
         IN  IF q.t = "inf" THEN Raise("OverflowError") ELSE q

\* The expressions a * b, a + b, a / b and a ** 2.
Mul(a, b) == BinOp(a, b, PyMul)
Add(a, b) == BinOp(a, b, PyAdd)
Div(a, b) == BinOp(a, b, PyDiv)
Pow2(a) == Try(a, PyPow2)

(***************************************************************************)
(* Objects.  Every Python object is a record whose field t is its class.   *)
(***************************************************************************)
None == [t |-> "NoneType"]

\* ---- class Training ----
Training_LEN_STEP == PyFloat(65, 100)
M_IN_KM == 1000
DURATION_MINUTES == 60

\* Training.__init__ on a new object of class cls
Training_init(cls, action, duration, weight) ==
    [t |-> cls, action |-> action, duration_hr |-> duration, weight_kg |-> weight]

\* ---- class Running ----
CALORIES_MEAN_SPEED_MULTIPLIER == 18
\* The shift of an earlier formula, 18 * speed - 20.
CALORIES_MEAN_SPEED_SHIFT_old == PyFloat(-20, 1)

CALORIES_MEAN_SPEED_SHIFT == PyFloat(179, 100)

\* ---- class SportsWalking ----
SportsWalking_COEFFICIENT_1 == PyFloat(35, 1000)
SportsWalking_COEFFICIENT_2 == PyFloat(29, 1000)
METERS_PER_SECOND == PyFloat(278, 1000)
C_IN_M == 100

\* super().__init__(action, duration, weight), then self.height_cm = height
SportsWalking_init(action, duration, weight, height) ==
    [height_cm |-> height]
        @@ Training_init("SportsWalking", action, duration, weight)

\* ---- class Swimming ----
Swimming_COEFFICIENT_1 == PyFloat(11, 10)
Swimming_COEFFICIENT_2 == 2
Swimming_LEN_STEP == PyFloat(138, 100)

\* Swimming.__init__ with the two pool arguments stored the wrong way round.
Swimming_init_swapped(action, duration, weight, length_pool, count_pool) ==
    [length_pool_m |-> count_pool, count_pool |-> length_pool]
        @@ Training_init("Swimming", action, duration, weight)

\* super().__init__(action, duration, weight), then the two pool fields
Swimming_init(action, duration, weight, length_pool, count_pool) ==
    [length_pool_m |-> length_pool, count_pool |-> count_pool]
        @@ Training_init("Swimming", action, duration, weight)

\* The attribute lookup without Swimming's override.
LEN_STEP_base(self) == Training_LEN_STEP

\* Attribute lookup self.LEN_STEP: Swimming overrides the class attribute.
LEN_STEP(self) ==
    IF self.t = "Swimming" THEN Swimming_LEN_STEP ELSE Training_LEN_STEP

\* Training.get_distance: self.action * self.LEN_STEP / self.M_IN_KM
get_distance(self) ==
    Div(Mul(self.action, LEN_STEP(self)), PyInt(M_IN_KM))

\* A mean speed with the ratio inverted: time over distance.
Training_get_mean_speed_inverted(self) ==
    Div(self.duration_hr, get_distance(self))

\* Training.get_mean_speed: self.get_distance() / self.duration_hr
Training_get_mean_speed(self) ==
    Div(get_distance(self), self.duration_hr)

\* Swimming.get_mean_speed:
\*   self.length_pool_m * self.count_pool / self.M_IN_KM / self.duration_hr
Swimming_get_mean_speed(self) ==
    Div(Div(Mul(self.length_pool_m, self.count_pool), PyInt(M_IN_KM)),
        self.duration_hr)

\* The method resolution without Swimming's override.
get_mean_speed_base(self) == Training_get_mean_speed(self)

\* Method resolution of self.get_mean_speed().
get_mean_speed(self) ==
    IF self.t = "Swimming" THEN Swimming_get_mean_speed(self)
    ELSE Training_get_mean_speed(self)

\* Training.get_spent_calories
Training_get_spent_calories(self) == Raise("NotImplementedError")

\* Running.get_spent_calories
Running_get_spent_calories(self) ==
    Mul(Div(Mul(Add(Mul(PyInt(CALORIES_MEAN_SPEED_MULTIPLIER),
                        get_mean_speed(self)),
                    CALORIES_MEAN_SPEED_SHIFT),
                self.weight_kg),
            PyInt(M_IN_KM)),
        Mul(self.duration_hr, PyInt(DURATION_MINUTES)))

\* SportsWalking.get_spent_calories
SportsWalking_get_spent_calories(self) ==
    Try(Mul(get_mean_speed(self), METERS_PER_SECOND), LAMBDA mean_speed :
    Try(Div(self.height_cm, PyInt(C_IN_M)), LAMBDA height_in_m :
    Try(Mul(self.duration_hr, PyInt(DURATION_MINUTES)), LAMBDA time_trainung_in_min :
        Mul(Add(Mul(SportsWalking_COEFFICIENT_1, self.weight_kg),
                Mul(Mul(Div(Pow2(mean_speed), height_in_m),
                        SportsWalking_COEFFICIENT_2),
                    self.weight_kg)),
            time_trainung_in_min))))

\* Swimming.get_spent_calories
Swimming_get_spent_calories(self) ==
    Mul(Mul(Mul(Add(get_mean_speed(self), Swimming_COEFFICIENT_1),
                PyInt(Swimming_COEFFICIENT_2)),
            self.weight_kg),
        self.duration_hr)

\* Method resolution of self.get_spent_calories().
get_spent_calories(self) ==
    CASE self.t = "Running" -> Running_get_spent_calories(self)
      [] self.t = "SportsWalking" -> SportsWalking_get_spent_calories(self)
      [] self.t = "Swimming" -> Swimming_get_spent_calories(self)
      [] OTHER -> Training_get_spent_calories(self)

\* The InfoMessage dataclass constructor.
InfoMessage(training_type, duration, distance, speed, calories) ==
    [t |-> "InfoMessage", training_type |-> training_type,
     duration |-> duration, distance |-> distance, speed |-> speed,
     calories |-> calories]

\* Training.show_training_info: the arguments are evaluated left to right,
\* the first exception propagates.
show_training_info(self) ==
    Try(get_distance(self), LAMBDA distance :
    Try(get_mean_speed(self), LAMBDA speed :
    Try(get_spent_calories(self), LAMBDA calories :
        InfoMessage(self.t, self.duration_hr, distance, speed, calories))))

(***************************************************************************)
(* Text.  A rendered number is a sequence of one-character strings.        *)
(***************************************************************************)
Digit(i) == <<"0", "1", "2", "3", "4", "5", "6", "7", "8", "9">>[i + 1]

\* The decimal digits of a natural number, most significant first.
RECURSIVE Digits(_)
Digits(i) == IF i < 10 THEN <<Digit(i)>> ELSE Append(Digits(i \div 10), Digit(i % 10))

RECURSIVE Pow10(_)
Pow10(p) == IF p = 0 THEN 1 ELSE 10 * Pow10(p - 1)

\* The last p decimal digits of a natural number, zero-padded.
RECURSIVE LastDigits(_, _)
LastDigits(i, p) ==
    IF p = 0 THEN <<>> ELSE Append(LastDigits(i \div 10, p - 1), Digit(i % 10))

\* The text of a finite float f in fixed-point notation with p digits after
\* the point: f is rounded half-even to a multiple of 10^-p and shown as
\* its sign, the digits of the integer part, a point and p digits.
Fixed(f, p) ==
    LET a == Abs(f.n)
        r == a % f.d
        q == (r * Pow10(p)) \div f.d
        rem == (r * Pow10(p)) % f.d
        m == IF 2 * rem > f.d \/ (2 * rem = f.d /\ q % 2 = 1) THEN q + 1 ELSE q
        whole == IF m = Pow10(p) THEN a \div f.d + 1 ELSE a \div f.d
    IN  (IF f.n < 0 THEN <<"-">> ELSE <<>>) \o Digits(whole) \o <<".">>
            \o LastDigits(m, p)

\* format(v, 'f') with a precision of p digits: an int is converted to
\* float first; infinities and NaN are shown by name, without digits.
format_f(v, p) ==
    Try(ToFloat(v), LAMBDA f :
        [t |-> "str",
         text |-> CASE f.t = "nan" -> <<"n", "a", "n">>
                    [] f.t = "inf" ->
                        (IF f.n < 0 THEN <<"-">> ELSE <<>>) \o <<"i", "n", "f">>
                    [] OTHER -> Fixed(f, p)])

\* The replacement field with a precision of 2.
format_1_2f(v) == format_f(v, 2)

\* The replacement field {:1.3f}: minimum width 1, precision 3.
format_1_3f(v) == format_f(v, 3)

\* InfoMessage.DEFAULT_MESSAGE: five replacement fields between six literal
\* pieces (the literal text, in Russian in the source, is named by its
\* position).
DEFAULT_MESSAGE ==
    <<"literal1", "{}", "literal2", "{:1.3f}", "literal3", "{:1.3f}",
      "literal4", "{:1.3f}", "literal5", "{:1.3f}", "literal6">>

\* astuple(infomessage): the five fields in declaration order.
astuple(self) ==
    <<self.training_type, self.duration, self.distance, self.speed, self.calories>>

\* str.format(*data) on DEFAULT_MESSAGE, piece by piece: piece 2k is the
\* k-th argument rendered by its replacement field, the odd pieces are the
\* literal text.  The first exception raised by a field propagates.
str_format(template, data) ==
    LET piece(i) ==
            IF template[i] = "{}" THEN [t |-> "str", text |-> <<data[i \div 2]>>]
            ELSE IF template[i] = "{:1.3f}" THEN format_1_3f(data[i \div 2])
            ELSE [t |-> "str", text |-> <<template[i]>>]
        bad == {i \in DOMAIN template : IsExc(piece(i))}
    IN  IF bad # {}
        THEN piece(CHOOSE i \in bad : \A j \in bad : i <= j)
        ELSE [t |-> "str", pieces |-> [i \in DOMAIN template |-> piece(i).text]]

\* InfoMessage.get_message
get_message(self) ==
    LET infomessage == InfoMessage(self.training_type, self.duration,
                                   self.distance, self.speed, self.calories)
        data == astuple(infomessage)
    IN  str_format(DEFAULT_MESSAGE, data)

(***************************************************************************)
(* read_package                                                            *)
(***************************************************************************)
\* The dict training_type of read_package: tag -> class.
training_type == [SWM |-> "Swimming", RUN |-> "Running", WLK |-> "SportsWalking"]

\* A constructor call that drops surplus arguments instead of rejecting them.
Construct_lenient(cls, data) ==
    CASE cls = "Running" ->
            IF Len(data) < 3 THEN Raise("TypeError")
            ELSE Training_init("Running", data[1], data[2], data[3])
      [] cls = "SportsWalking" ->
            IF Len(data) < 4 THEN Raise("TypeError")
            ELSE SportsWalking_init(data[1], data[2], data[3], data[4])
      [] cls = "Swimming" ->
            IF Len(data) < 5 THEN Raise("TypeError")
            ELSE Swimming_init(data[1], data[2], data[3], data[4], data[5])

\* The call cls(*data): the arguments are bound by position to the
\* parameters of cls.__init__; any other number of arguments is a TypeError.
Construct(cls, data) ==
    CASE cls = "Running" ->
            IF Len(data) # 3 THEN Raise("TypeError")
            ELSE Training_init("Running", data[1], data[2], data[3])
      [] cls = "SportsWalking" ->
            IF Len(data) # 4 THEN Raise("TypeError")
            ELSE SportsWalking_init(data[1], data[2], data[3], data[4])
      [] cls = "Swimming" ->
            IF Len(data) # 5 THEN Raise("TypeError")
            ELSE Swimming_init(data[1], data[2], data[3], data[4], data[5])

\* A dispatcher that falls back to Running on an unknown tag.
read_package_fallback(workout_type_arg, data_arg) ==
    IF workout_type_arg \in {"SWM", "RUN", "WLK"}
    THEN Construct(training_type[workout_type_arg], data_arg)
    ELSE Construct("Running", data_arg)

read_package(workout_type, data) ==
    IF workout_type \notin DOMAIN training_type
    THEN Raise("ValueError")
    ELSE Construct(training_type[workout_type], data)


\* main(training): info = training.show_training_info(), then
\* print(info.get_message()).  The value is the printed line, or the
\* exception that ends the call.
main(training_arg) ==
    Try(show_training_info(training_arg), LAMBDA info_local :
        get_message(info_local))

(***************************************************************************)
(* Inputs.  The packages a caller hands to read_package: the samples of    *)
(* the __main__ block and a grid of tags and field lists of every length   *)
(* from MinLen to MaxLen, whose values include zero, negative, very large  *)
(* and very small numbers.                                                 *)
(***************************************************************************)
MinLen == 2
MaxLen == 6

Tags == {"SWM", "RUN", "WLK", "XYZ", "run"}

Field1 == {PyInt(0), PyInt(15000), PyInt(-15000), PyInt(2000000)}
Field2 == {PyInt(1), PyInt(0), PyFloat(1, 1000), PyFloat(1, 1000000)}
Field3 == {PyInt(75), PyInt(0), PyFloat(1000000, 1)}
Field4 == {PyInt(180), PyInt(0), PyFloat(1, 1000000)}
Field5 == {PyInt(40), PyInt(0)}
FieldN == {PyInt(1)}

FieldValues(i) ==
    CASE i = 1 -> Field1 [] i = 2 -> Field2 [] i = 3 -> Field3
      [] i = 4 -> Field4 [] i = 5 -> Field5 [] OTHER -> FieldN

\* The field lists of one length: position i holds a value of FieldValues(i).
RECURSIVE ListsOfLen(_)
ListsOfLen(len) ==
    IF len = 0 THEN {<<>>}
    ELSE {Append(d, v) : d \in ListsOfLen(len - 1), v \in FieldValues(len)}

DataLists == UNION {ListsOfLen(len) : len \in MinLen..MaxLen}

\* The first two samples of the __main__ block (the second is in the grid).
packages ==
    {<<"SWM", <<PyInt(720), PyInt(1), PyInt(80), PyInt(25), PyInt(40)>>>>,
     <<"RUN", <<PyInt(15000), PyInt(1), PyInt(75)>>>>}

\* A pool whose length times count, divided by M_IN_KM, is above MaxFloat.
LargePool ==
    {<<"SWM", <<PyInt(720), PyInt(1), PyInt(80), PyInt(40000), PyInt(40000)>>>>}

Packages == packages \cup LargePool \cup (Tags \X DataLists)

(***************************************************************************)
(* State.                                                                  *)
(***************************************************************************)
VARIABLES
    workout_type,   \* the tag given to read_package ("" before the call)
    data,           \* the field list given to read_package
    training,       \* the record read_package returned, or None
    called,         \* the last call made ("" before the first)
    ret,            \* what the last call returned or raised
    info,           \* the caller's last InfoMessage, or None
    message,        \* the caller's last formatted message, or None
    stdout          \* the lines printed by main

vars == <<workout_type, data, training, called, ret, info, message, stdout>>

\* main prints at most MaxPrints lines in a run of the model.
MaxPrints == 1

Init ==
    /\ workout_type = ""
    /\ data = <<>>
    /\ training = None
    /\ called = ""
    /\ ret = None
    /\ info = None
    /\ message = None
    /\ stdout = <<>>

\* training = read_package(workout_type, data)
ReadPackage ==
    /\ called = ""
    /\ \E p \in Packages :
        LET r == read_package(p[1], p[2])
        IN  /\ workout_type' = p[1]
            /\ data' = p[2]
            /\ ret' = r
            /\ training' = IF IsExc(r) THEN training ELSE r
    /\ called' = "read_package"
    /\ UNCHANGED <<info, message, stdout>>

\* training.get_distance()
GetDistance ==
    /\ training # None
    /\ ret' = get_distance(training)
    /\ called' = "get_distance"
    /\ UNCHANGED <<workout_type, data, training, info, message, stdout>>

\* training.get_mean_speed()
GetMeanSpeed ==
    /\ training # None
    /\ ret' = get_mean_speed(training)
    /\ called' = "get_mean_speed"
    /\ UNCHANGED <<workout_type, data, training, info, message, stdout>>

\* A get_spent_calories that converts self.duration_hr to minutes in place.
GetSpentCalories_in_place ==
    /\ training # None
    /\ ret' = get_spent_calories(training)
    /\ training' = [training EXCEPT
                        !.duration_hr = Mul(@, PyInt(DURATION_MINUTES))]
    /\ called' = "get_spent_calories"
    /\ UNCHANGED <<workout_type, data, info, message, stdout>>

\* training.get_spent_calories()
GetSpentCalories ==
    /\ training # None
    /\ ret' = get_spent_calories(training)
    /\ called' = "get_spent_calories"
    /\ UNCHANGED <<workout_type, data, training, info, message, stdout>>

\* info = training.show_training_info()
ShowTrainingInfo ==
    /\ training # None
    /\ LET r == show_training_info(training)
       IN  /\ ret' = r
           /\ info' = IF IsExc(r) THEN info ELSE r
    /\ called' = "show_training_info"
    /\ UNCHANGED <<workout_type, data, training, message, stdout>>

\* message = info.get_message()
GetMessage ==
    /\ info # None
    /\ LET r == get_message(info)
       IN  /\ ret' = r
           /\ message' = IF IsExc(r) THEN message ELSE r
    /\ called' = "get_message"
    /\ UNCHANGED <<workout_type, data, training, info, stdout>>

\* main(training)
Main ==
    /\ training # None
    /\ Len(stdout) < MaxPrints
    /\ LET r == main(training)
       IN  /\ ret' = IF IsExc(r) THEN r ELSE None
           /\ stdout' = IF IsExc(r) THEN stdout ELSE Append(stdout, r)
    /\ called' = "main"
    /\ UNCHANGED <<workout_type, data, training, info, message>>

Next ==
    \/ ReadPackage
    \/ GetDistance
    \/ GetMeanSpeed
    \/ GetSpentCalories
    \/ ShowTrainingInfo
    \/ GetMessage
    \/ Main

Spec == Init /\ [][Next]_vars

(***************************************************************************)
(* Properties.                                                             *)
(***************************************************************************)
Recognized == {"SWM", "RUN", "WLK"}

\* The number of constructor parameters of the class a tag names.
FieldCount(tag) == CASE tag = "RUN" -> 3 [] tag = "WLK" -> 4 [] tag = "SWM" -> 5

Positive(v) == IsFinite(v) /\ v.n > 0

\* C1: read_package with a tag other than SWM, RUN, WLK raises the
\* unknown-activity-type error (ValueError), whatever the field list, and
\* no record is constructed.
C1_UnknownTagRaisesValueError ==
    (called # "" /\ workout_type \notin Recognized)
        => /\ ret = Raise("ValueError")
           /\ training = None
           /\ called = "read_package"

C1_Witness ==
    /\ called = "read_package"
    /\ workout_type = "XYZ"
    /\ Len(data) = 3
    /\ ret.t = "ValueError"
    /\ training = None

\* C2: read_package with a recognized tag and a field list of that class's
\* length returns a record of the matching class whose fields are the list's
\* values in order: action, duration, weight, then height for SportsWalking,
\* or pool length and pool count for Swimming.
C2_PositionalBinding ==
    (called = "read_package" /\ workout_type \in Recognized
        /\ Len(data) = FieldCount(workout_type))
        => /\ ret = training
           /\ training.t = (CASE workout_type = "SWM" -> "Swimming"
                              [] workout_type = "RUN" -> "Running"
                              [] workout_type = "WLK" -> "SportsWalking")
           /\ training.action = data[1]
           /\ training.duration_hr = data[2]
           /\ training.weight_kg = data[3]
           /\ workout_type = "WLK" =>
                /\ DOMAIN training = {"t", "action", "duration_hr", "weight_kg", "height_cm"}
                /\ training.height_cm = data[4]
           /\ workout_type = "SWM" =>
                /\ DOMAIN training = {"t", "action", "duration_hr", "weight_kg",
                                      "length_pool_m", "count_pool"}
                /\ training.length_pool_m = data[4]
                /\ training.count_pool = data[5]
           /\ workout_type = "RUN" =>
                DOMAIN training = {"t", "action", "duration_hr", "weight_kg"}

C2_Witness ==
    /\ called = "read_package"
    /\ workout_type = "SWM"
    /\ Len(data) = 5
    /\ data[4] # data[5]
    /\ training.t = "Swimming"
    /\ training.length_pool_m = data[4]

\* C6: read_package with a recognized tag and a field list shorter or longer
\* than the class's parameter count fails with the constructor's TypeError,
\* not with the unknown-activity-type ValueError, and returns no record.
C6_WrongFieldCountRaisesTypeError ==
    (called # "" /\ workout_type \in Recognized
        /\ Len(data) # FieldCount(workout_type))
        => /\ ret = Raise("TypeError")
           /\ training = None
           /\ called = "read_package"

C6_Witness ==
    /\ called = "read_package"
    /\ workout_type = "RUN"
    /\ Len(data) = 4
    /\ ret.t = "TypeError"
    /\ training = None

\* The first two samples of the __main__ block as records.
RunSample == Training_init("Running", PyInt(15000), PyInt(1), PyInt(75))
SwimSample == Swimming_init(PyInt(720), PyInt(1), PyInt(80), PyInt(25), PyInt(40))

\* v, a finite float, equals c/100 when rounded to two decimals.
RoundsTo2(v, c) == Abs(200 * v.n - 2 * c * v.d) <= v.d

\* C3 as stated: for Running(15000, 1, 75) the distance is 9.75, the mean
\* speed is 9.75 and the spent calories are 801.77 to two decimals.
C3_Original ==
    training = RunSample
        => /\ called = "get_distance" => ret = Rat(975, 100)
           /\ called = "get_mean_speed" => ret = Rat(975, 100)
           /\ called = "get_spent_calories" => (ret.t = "float" /\ RoundsTo2(ret, 80177))

\* C3 as amended: for Running(15000, 1, 75) the distance is 9.75, the mean
\* speed is 9.75 and the spent calories,
\* (18 * 9.75 + 1.79) * 75 / 1000 * (1 * 60), are 797.805.
C3_RunningSample ==
    training = RunSample
        => /\ called = "get_distance" => ret = Rat(975, 100)
           /\ called = "get_mean_speed" => ret = Rat(975, 100)
           /\ called = "get_spent_calories" => ret = Rat(797805, 1000)

C3_Witness ==
    /\ training = RunSample
    /\ called = "get_spent_calories"
    /\ ret.t = "float"

\* C4: for Swimming(720, 1, 80, 25, 40) the mean speed is 1.0 and the spent
\* calories, (1.0 + 1.1) * 2 * 80 * 1, are 336.0.
C4_SwimmingSample ==
    training = SwimSample
        => /\ called = "get_mean_speed" => ret = Rat(1, 1)
           /\ called = "get_spent_calories" => ret = Rat(336, 1)

C4_Witness ==
    /\ training = SwimSample
    /\ called = "get_spent_calories"
    /\ ret.t = "float"

Computations == {"get_distance", "get_mean_speed", "get_spent_calories"}

\* Every field of the record is an int.
IntFields(self) == \A f \in DOMAIN self \ {"t"} : self[f].t = "int"

C7_DistanceNonNegative ==
    (training # None /\ called = "get_distance" /\ ~IsExc(ret)
        /\ training.action.t = "int" /\ training.action.n >= 0)
        => /\ ret.t = "float"
           /\ ret.n >= 0
           /\ RatMul(ret, Rat(1000, 1))
                = RatMul(Rat(training.action.n, 1),
                         IF training.t = "Swimming" THEN Rat(138, 100)
                         ELSE Rat(65, 100))

C7_Witness ==
    /\ training # None
    /\ training.t = "Swimming"
    /\ training.action.n > 0
    /\ called = "get_distance"
    /\ ret.t = "float"
    /\ ret.n > 0

\* C8: on a Swimming record with a positive duration the mean speed is
\* length_pool_m * count_pool / 1000 / duration_hr whatever the action
\* count, the distance is action * 1.38 / 1000, and a record that differs
\* only in its action count has the same mean speed and the same calories.
C8_SwimmingSpeedFromPool ==
    (training # None /\ training.t = "Swimming" /\ Positive(training.duration_hr))
        => /\ \A a \in Field1 :
                LET other == [training EXCEPT !.action = a]
                IN  /\ get_mean_speed(other) = get_mean_speed(training)
                    /\ get_spent_calories(other) = get_spent_calories(training)
           /\ (called = "get_mean_speed" /\ ret.t = "float"
                    /\ (ret.n # 0 \/ IsZero(training.length_pool_m)
                            \/ IsZero(training.count_pool)))
                => RatMul(RatMul(ret, Rat(1000, 1)), ToFloat(training.duration_hr))
                     = RatMul(ToFloat(training.length_pool_m),
                              ToFloat(training.count_pool))
           /\ (called = "get_distance" /\ ret.t = "float")
                => RatMul(ret, Rat(1000, 1))
                     = RatMul(ToFloat(training.action), Rat(138, 100))

C8_Witness ==
    /\ training # None
    /\ training.t = "Swimming"
    /\ Positive(training.duration_hr)
    /\ training.action.n # 0
    /\ called = "get_mean_speed"
    /\ ret.t = "float"
    /\ ret.n > 0

IsDigit(c) == c \in {"0", "1", "2", "3", "4", "5", "6", "7", "8", "9"}

\* The text is an optional minus sign, one or more digits, a point and
\* exactly three digits.
ThreeDecimals(text) ==
    \E i \in 1..Len(text) :
        /\ text[i] = "."
        /\ Len(text) - i = 3
        /\ \E j \in 1..(i - 1) : IsDigit(text[j])
        /\ \A j \in 1..Len(text) :
                j # i => (IsDigit(text[j]) \/ (j = 1 /\ text[j] = "-"))

\* The pieces of a formatted message that hold its four numeric fields:
\* duration, distance, speed, calories.
NumericPieces == {4, 6, 8, 10}

\* The formatted lines the program has produced, each with the InfoMessage
\* it was made from.
Formatted ==
    (IF message # None THEN {<<message, info>>} ELSE {})
        \cup {<<stdout[i], show_training_info(training)>> : i \in DOMAIN stdout}

\* C9 as stated: every formatted message shows each of its four numeric
\* fields with exactly three digits after the point.
C9_Original ==
    \A line \in Formatted :
        \A i \in NumericPieces : ThreeDecimals(line[1].pieces[i])

\* C9 as amended: every formatted message shows each of its four numeric
\* fields that is a finite number with exactly three digits after the
\* point, whatever its magnitude; a field that is infinite or NaN is shown
\* as inf, -inf or nan, with no digits.
C9_ThreeDecimalsWhenFinite ==
    \A line \in Formatted :
        \A i \in NumericPieces :
            IF IsFinite(astuple(line[2])[i \div 2])
            THEN ThreeDecimals(line[1].pieces[i])
            ELSE line[1].pieces[i]
                    \in {<<"i", "n", "f">>, <<"-", "i", "n", "f">>, <<"n", "a", "n">>}

C9_Witness ==
    /\ message # None
    /\ called = "get_message"
    /\ info.speed.t = "float"
    /\ info.speed.n >= 9000 * info.speed.d
    /\ ThreeDecimals(message.pieces[8])
    /\ stdout # <<>>

\* C10: a record is never changed after its construction: no call of
\* get_distance, get_mean_speed, get_spent_calories, show_training_info,
\* get_message or main changes any of its fields.
C10_RecordImmutable == [][training # None => training' = training]_vars

C10_Witness ==
    /\ training # None
    /\ called = "get_message"
    /\ message # None
    /\ stdout # <<>>
    /\ training = read_package(workout_type, data)
====
